---- MODULE Spec2Model ----
(***************************************************************************)
(* The deal-monitoring loop of dealabs-api: `monitor` in                   *)
(* src/src/dealabs/cli.py, with the record construction it relies on       *)
(* (Deal.__init__ and parse_timestamp in src/src/dealabs/models.py, and    *)
(* Dealabs.get_new_deals in src/dealabs/dealabs.py).                       *)
(*                                                                         *)
(* Python values are tagged records: None is [tag |-> "None"], an int is   *)
(* [tag |-> "int", v |-> n], a str is [tag |-> "str", ...].  Text (titles, *)
(* categories, keywords) is a sequence of one-character strings so that    *)
(* lower() and the `in` substring test are computed, not assumed.          *)
(***************************************************************************)
EXTENDS Integers, Sequences, FiniteSets, TLC

VARIABLES
    \* --- options of the command (fixed for one run) ---
    keywords,            \* --keywords: set of texts
    categories,          \* --categories: set of texts
    interval,            \* --interval, seconds
    min_age,             \* --min-age, seconds
    min_temperature,     \* --min-temperature
    \* --- the environment ---
    feed,                \* which upstream answers get_new_deals: the name of a set of pages
    clock,               \* wall clock, seconds
    \* --- locals of monitor ---
    last_processed_id,   \* the watermark
    deals,               \* the batch of the current iteration, after filter and sort
    current_batch_max_id,
    current_time,
    idx,                 \* position of the for loop in deals (1-based)
    pc,                  \* "fetch" | "process" | "post" | "sleep" | "cooldown" | "stopped"
    \* --- observation (history) ---
    sent,                \* the thread_ids requests.post was called for so far in the run
    fetched,             \* thread_ids of the page of the current iteration, as it arrived
    log,                 \* events of the current iteration, in order
    wm0,                 \* last_processed_id as it was when the current iteration began
    iter                 \* number of iterations begun

vars == <<keywords, categories, interval, min_age, min_temperature, feed, clock,
          last_processed_id, deals, current_batch_max_id, current_time, idx, pc,
          sent, fetched, log, wm0, iter>>

options == <<keywords, categories, interval, min_age, min_temperature, feed>>

----------------------------------------------------------------------------
(* Bounds of the model *)

\* iterations of the while loop one run may begin
MaxIter == 3
\* thread_ids of the general feed are 1..MaxId
MaxId == 3
\* records in one page of the general feed
MaxPage == 2

----------------------------------------------------------------------------
(* Python values *)

None == [tag |-> "None"]
PyInt(n) == [tag |-> "int", v |-> n]
PyStr(s) == [tag |-> "str", v |-> s]
\* a str holding a timestamp: fmt is the pattern it is written in
\* ("iso_frac" = %Y-%m-%dT%H:%M:%S.%fZ, "iso" = %Y-%m-%dT%H:%M:%SZ, "other"), t the instant
TimeStr(fmt, t) == [tag |-> "str", fmt |-> fmt, t |-> t]
\* a datetime: tz is "utc" (aware) or "naive"
DateTime(tz, t) == [tag |-> "datetime", tz |-> tz, t |-> t]

IsNone(x) == x.tag = "None"

\* str.lower() on the alphabet of the model
LowerChar(c) ==
    CASE c = "A" -> "a"
      [] c = "B" -> "b"
      [] c = "C" -> "c"
      [] OTHER -> c

Lower(s) == [k \in 1..Len(s) |-> LowerChar(s[k])]

\* Python's `a in b` on str: a occurs in b as a contiguous substring
Contains(a, b) ==
    \E k \in 1..(Len(b) - Len(a) + 1) : SubSeq(b, k, k + Len(a) - 1) = a

\* Python truthiness of an optional str: None and '' are falsy
Truthy(x) == ~IsNone(x) /\ x.v # <<>>

----------------------------------------------------------------------------
(* models.py *)

\* parse_timestamp(value): a number is read as an epoch (aware, UTC); a str is
\* tried against the two patterns with strptime, which yields a naive datetime;
\* anything else, and a str matching neither pattern, is None
parse_timestamp(value) ==
    CASE value.tag = "int" -> DateTime("utc", value.v)
      [] value.tag = "str" ->
            IF value.fmt \in {"iso_frac", "iso"} THEN DateTime("naive", value.t) ELSE None
      [] OTHER -> None

\* int(x) as Deal.__init__ applies it to temperature_rating: raises on None
IntRaises(x) == x.tag # "int"

\* Deal.__init__(data) raises exactly when int(data.get('temperature_rating')) does
DealRaises(data) == IntRaises(data.temperature_rating)

\* Deal(data): the fields monitor reads.  The wire key '_type' is the field deal_type.
Deal(data) ==
    [ deal_type   |-> data.deal_type,
      thread_id   |-> data.thread_id,
      title       |-> data.title,
      category    |-> data.group_display_summary,
      temperature |-> data.temperature_rating.v,
      created     |-> parse_timestamp(data.created) ]

----------------------------------------------------------------------------
(* dealabs.py *)

\* get_new_deals: [Deal(d) for d in req.get('data', [])]; raises if any Deal(d) does
PageRaises(page) == \E k \in 1..Len(page) : DealRaises(page[k])

get_new_deals(page) == [k \in 1..Len(page) |-> Deal(page[k])]

----------------------------------------------------------------------------
(* cli.py, monitor: the pure parts *)

\* the error cooldown, time.sleep(60)
Cooldown == 60
\* defaults of --interval, --min-age, --min-temperature
DefaultInterval == 300
DefaultMinAge == 300
DefaultMinTemperature == 50

\* the only status the loop reports as sent
StatusOk == 200

\* (mutant) line 158 missing: every record of the page stays in the batch
OnlyDeals_all(ds) == ds

\* list(filter(lambda deal: deal.deal_type == 'deals', deals))
OnlyDeals(ds) == SelectSeq(ds, LAMBDA d : d.deal_type = "deals")

\* insert d into the sorted sequence s after every element with a key <= its own
RECURSIVE InsertByThreadId(_, _)
InsertByThreadId(d, s) ==
    IF s = <<>> THEN <<d>>
    ELSE IF d.thread_id < s[1].thread_id THEN <<d>> \o s
    ELSE <<s[1]>> \o InsertByThreadId(d, Tail(s))

\* (mutant) line 161 left out: the batch stays in feed order
SortByThreadId_asis(s) == s

\* deals.sort(key=lambda deal: deal.thread_id): a stable ascending sort
RECURSIVE SortByThreadId(_)
SortByThreadId(s) ==
    IF s = <<>> THEN <<>>
    ELSE InsertByThreadId(s[Len(s)], SortByThreadId(SubSeq(s, 1, Len(s) - 1)))

\* max(deal.thread_id for deal in deals), deals not empty
MaxThreadId(ds) ==
    CHOOSE m \in {ds[k].thread_id : k \in 1..Len(ds)} :
        \A k \in 1..Len(ds) : ds[k].thread_id <= m

\* (mutant) lines 164-166 taking the first record of the batch for its maximum
BatchMaxId_first(ds, last) == IF ds # <<>> THEN ds[1].thread_id ELSE last

\* current_batch_max_id = last_processed_id; if deals: ... = max(...)
BatchMaxId(ds, last) == IF ds # <<>> THEN MaxThreadId(ds) ELSE last

\* (mutant) line 220 left out: the watermark never moves
NextLastProcessedId_keep(last, batch_max) == last

\* the value line 220 assigns to last_processed_id
NextLastProcessedId(last, batch_max) == batch_max

\* (mutant) line 172 with < for <=
AlreadyProcessed_strict(deal, last) == deal.thread_id < last

\* line 172: if deal.thread_id <= last_processed_id: continue
AlreadyProcessed(deal, last) == deal.thread_id <= last

\* line 180: current_time - deal.created raises TypeError when one side is naive
\* and the other aware; current_time is always aware
AgeRaises(now, deal) == deal.created.tz # now.tz

\* (mutant) line 180 without the creation time: the age is the clock itself
AgeSeconds_clock(now, deal) == now.t

\* line 180: (current_time - deal.created).total_seconds()
AgeSeconds(now, deal) == now.t - deal.created.t

\* lines 186-187
TitleLower(deal) == IF Truthy(deal.title) THEN Lower(deal.title.v) ELSE <<>>
CategoryLower(deal) == IF Truthy(deal.category) THEN Lower(deal.category.v) ELSE <<>>

\* (mutant) line 190 without 'if keywords else True': no keyword, no keyword match
KeywordMatch_strict(deal, kws) ==
    \E kw \in kws : Contains(Lower(kw), TitleLower(deal))

\* lines 190-192
KeywordMatch(deal, kws) ==
    IF kws # {} THEN \E kw \in kws : Contains(Lower(kw), TitleLower(deal)) ELSE TRUE
CategoryMatch(deal, cats) ==
    IF cats # {} THEN \E cat \in cats : Contains(Lower(cat), CategoryLower(deal)) ELSE TRUE
TemperatureMatch(deal, min_temp) == deal.temperature >= min_temp

\* (mutant) line 194 with the temperature as one more alternative
Matches_anyof(deal, kws, cats, min_temp) ==
    KeywordMatch(deal, kws) \/ CategoryMatch(deal, cats) \/ TemperatureMatch(deal, min_temp)

\* (mutant) line 194 asking for the keyword and the category both
Matches_both(deal, kws, cats, min_temp) ==
    (KeywordMatch(deal, kws) /\ CategoryMatch(deal, cats)) /\ TemperatureMatch(deal, min_temp)

\* line 194
Matches(deal, kws, cats, min_temp) ==
    (KeywordMatch(deal, kws) \/ CategoryMatch(deal, cats)) /\ TemperatureMatch(deal, min_temp)

\* an event of the log
Ev(e, n) == [e |-> e, n |-> n]

----------------------------------------------------------------------------
(* The upstream: the wire records and pages get_new_deals may receive *)

\* the wall clock when the run starts
StartTime == 1000

Txt(s) == PyStr(s)

\* a wire record: thread_id with the other keys of `shape`
Wire(id, shape) == [thread_id |-> id] @@ shape

Shape(type, title, cat, temp, created) ==
    [ deal_type |-> type, title |-> title, group_display_summary |-> cat,
      temperature_rating |-> temp, created |-> created ]

\* a deal the default options let through
HotShape == Shape("deals", Txt(<<"C", "A", "B">>), Txt(<<"B", "c">>), PyInt(60), PyInt(0))
\* too cold
ColdShape == Shape("deals", Txt(<<"C", "A", "B">>), Txt(<<"B", "c">>), PyInt(40), PyInt(0))
\* neither its title nor its category matches
OffTopicShape == Shape("deals", Txt(<<"c", "c">>), None, PyInt(60), PyInt(0))
\* created as the run starts
YoungShape == Shape("deals", Txt(<<"C", "A", "B">>), Txt(<<"B", "c">>), PyInt(60), PyInt(StartTime))
\* no usable creation time
UndatedShape == Shape("deals", Txt(<<"C", "A", "B">>), Txt(<<"B", "c">>), PyInt(60), TimeStr("other", 0))
\* creation time as an ISO string
IsoShape == Shape("deals", Txt(<<"C", "A", "B">>), Txt(<<"B", "c">>), PyInt(60), TimeStr("iso", 0))
\* not a deal
ThreadShape == Shape("discussion", Txt(<<"C", "A", "B">>), Txt(<<"B", "c">>), PyInt(60), PyInt(0))
\* no temperature_rating
UnratedShape == Shape("deals", Txt(<<"C", "A", "B">>), Txt(<<"B", "c">>), None, PyInt(0))

GeneralShapes == {HotShape, ColdShape, YoungShape, UndatedShape, IsoShape,
                  ThreadShape, UnratedShape}

\* the sequences of at most n of `records`, no thread_id twice (identifiers are unique upstream)
PagesOver(records, n) ==
    UNION { { p \in [1..k -> records] :
                \A a, b \in 1..k : a # b => p[a].thread_id # p[b].thread_id }
            : k \in 0..n }

\* the page lists the newest record first
NewestFirst(page) ==
    \A a, b \in 1..Len(page) : a < b => page[a].thread_id > page[b].thread_id

\* The general feed: every page of at most two records, in either order, and the longer
\* pages in the order the upstream lists them, newest first.
GeneralPages ==
    { page \in PagesOver({Wire(id, sh) : id \in 1..MaxId, sh \in GeneralShapes}, MaxPage) :
        Len(page) <= 2 \/ NewestFirst(page) }

\* The scenario feed: the four deals 105, 98, 120, 103 arrive in that order, each
\* dated by an epoch number (hot, cold or young); before them the upstream has the
\* single record 100, of any shape.
ScenarioOrder == <<105, 98, 120, 103>>
ScenarioShapes == {HotShape, ColdShape, YoungShape}

ScenarioPages ==
    { [k \in 1..Len(ScenarioOrder) |-> Wire(ScenarioOrder[k], sh[k])] :
        sh \in [1..Len(ScenarioOrder) -> ScenarioShapes] }
    \cup { <<Wire(100, sh)>> : sh \in GeneralShapes }
    \cup { <<>> }

\* The filter feed: pages of one record, thread_id 1, over every combination of the
\* fields the filter reads.
FilterTitles == {None, Txt(<<>>), Txt(<<"C", "A", "B">>), Txt(<<"c", "c">>)}
FilterCategories == {None, Txt(<<"B", "c">>), Txt(<<"a", "b">>)}
FilterTemperatures == {None, PyInt(40), PyInt(50), PyInt(60)}
FilterCreated == {None, PyInt(0), PyInt(StartTime), TimeStr("other", 0), TimeStr("iso", 0),
                  TimeStr("iso_frac", 0)}

FilterPages ==
    { <<Wire(1, Shape(ty, ti, ca, te, cr))>> :
        ty \in {"deals", "discussion"}, ti \in FilterTitles, ca \in FilterCategories,
        te \in FilterTemperatures, cr \in FilterCreated }

\* the option values the filter specification starts from
FilterKeywordSets == { {}, {<<"a", "B">>}, {<<"b">>, <<"c", "c">>} }
FilterCategorySets == { {}, {<<"B", "C">>}, {<<"a">>} }
FilterMinAges == {0, DefaultMinAge}
FilterMinTemperatures == {0, DefaultMinTemperature}

\* The failing feed: every page of one record, and the page of a hot deal followed by
\* a deal dated by an ISO string.
FailingPages ==
    PagesOver({Wire(id, sh) : id \in 1..MaxId, sh \in GeneralShapes}, 1)
    \cup { <<Wire(1, HotShape), Wire(2, IsoShape)>> }

PagesOf(f) ==
    CASE f = "general" -> GeneralPages
      [] f = "scenario" -> ScenarioPages
      [] f = "failing" -> FailingPages
      [] f = "filter" -> FilterPages

----------------------------------------------------------------------------
(* cli.py, monitor: the loop *)

\* (mutant) line 144 starting the watermark at 1
InitLocals_one ==
    /\ clock = StartTime
    /\ last_processed_id = 1
    /\ deals = <<>>
    /\ current_batch_max_id = 0
    /\ current_time = None
    /\ idx = 1
    /\ pc = "fetch"
    /\ sent = {}
    /\ fetched = <<>>
    /\ log = <<>>
    /\ wm0 = 1
    /\ iter = 0

\* lines 143-144, before the first iteration; deals, current_batch_max_id and
\* current_time are not bound yet
InitLocals ==
    /\ clock = StartTime
    /\ last_processed_id = 0
    /\ deals = <<>>
    /\ current_batch_max_id = 0
    /\ current_time = None
    /\ idx = 1
    /\ pc = "fetch"
    /\ sent = {}
    /\ fetched = <<>>
    /\ log = <<>>
    /\ wm0 = 0
    /\ iter = 0

\* --keywords ab --categories cc, --min-age and --min-temperature at their defaults
InitCriteria ==
    /\ keywords = {<<"a", "b">>}
    /\ categories = {<<"c", "c">>}
    /\ min_age = DefaultMinAge
    /\ min_temperature = DefaultMinTemperature

\* the same, --interval at its default too
InitOptions == InitCriteria /\ interval = DefaultInterval

\* values of --interval: one below the 60 s of line 230, and the default
Intervals == {30, DefaultInterval}

Init == InitOptions /\ feed = "general" /\ InitLocals

InitScenario == InitOptions /\ feed = "scenario" /\ InitLocals

InitFailing == InitCriteria /\ interval \in Intervals /\ feed = "failing" /\ InitLocals

InitFilter ==
    /\ keywords \in FilterKeywordSets
    /\ categories \in FilterCategorySets
    /\ interval = DefaultInterval
    /\ min_age \in FilterMinAges
    /\ min_temperature \in FilterMinTemperatures
    /\ feed = "filter"
    /\ InitLocals

\* (mutant) the handler of line 228 falling through to the interval sleep of line 223
ErrorHandler_interval(events) ==
    /\ log' = events \o <<Ev("error", 0), Ev("sleep", interval)>>
    /\ pc' = "sleep"

\* (mutant) the handler of line 228 re-raising, as the one of line 225 does
ErrorHandler_fatal(events) ==
    /\ log' = events \o <<Ev("error", 0)>>
    /\ pc' = "stopped"

\* (mutant) the handler of line 228 sleeping twice the interval
ErrorHandler_scaled(events) ==
    /\ log' = events \o <<Ev("error", 0), Ev("sleep", 2 * interval)>>
    /\ pc' = "cooldown"

\* the handler of line 228: echo the error, time.sleep(60)
ErrorHandler(events) ==
    /\ log' = events \o <<Ev("error", 0), Ev("sleep", Cooldown)>>
    /\ pc' = "cooldown"

BeginIteration ==
    /\ pc = "fetch"
    /\ iter < MaxIter
    /\ iter' = iter + 1

\* lines 156-168: the page arrives, every record builds; filter, sort, batch max, now
Fetch ==
    /\ BeginIteration
    /\ \E page \in PagesOf(feed) :
         /\ ~PageRaises(page)
         /\ deals' = SortByThreadId(OnlyDeals(get_new_deals(page)))
         /\ fetched' = [k \in 1..Len(page) |-> page[k].thread_id]
    /\ current_batch_max_id' = BatchMaxId(deals', last_processed_id)
    /\ current_time' = DateTime("utc", clock)
    /\ idx' = 1
    /\ pc' = "process"
    /\ log' = <<Ev("fetched", Len(deals'))>>
    /\ UNCHANGED <<options, clock, last_processed_id, sent, wm0>>

\* line 157 raises: the request fails (transport error, or a body that is not JSON)
FetchTransportError ==
    /\ BeginIteration
    /\ ErrorHandler(<<Ev("fetch_failed", 0)>>)
    /\ UNCHANGED <<options, clock, last_processed_id, deals, current_batch_max_id,
                   current_time, idx, sent, fetched, wm0>>

\* line 157 raises: a record of the page makes Deal.__init__ raise
FetchMalformed ==
    /\ BeginIteration
    /\ (\E page \in PagesOf(feed) : PageRaises(page)) = TRUE
    /\ ErrorHandler(<<Ev("fetch_malformed", 0)>>)
    /\ UNCHANGED <<options, clock, last_processed_id, deals, current_batch_max_id,
                   current_time, idx, sent, fetched, wm0>>

InLoop == pc = "process" /\ idx <= Len(deals)

\* (mutant) the watermark written inside the for loop, record by record
Continue_tracking(events) ==
    /\ log' = log \o events
    /\ idx' = idx + 1
    /\ last_processed_id' = deals[idx].thread_id
    /\ UNCHANGED <<options, clock, deals, current_batch_max_id,
                   current_time, pc, sent, fetched, wm0, iter>>

\* 'continue', or the end of the body of the for loop
Continue(events) ==
    /\ log' = log \o events
    /\ idx' = idx + 1
    /\ UNCHANGED <<options, clock, last_processed_id, deals, current_batch_max_id,
                   current_time, pc, sent, fetched, wm0, iter>>

\* lines 172-173
SkipProcessed ==
    /\ InLoop
    /\ AlreadyProcessed(deals[idx], last_processed_id)
    /\ Continue(<<>>)

\* (mutant) without the test of line 176 the record reaches line 180, where
\* current_time - None raises
WarnNoCreated_abort ==
    /\ InLoop
    /\ ~AlreadyProcessed(deals[idx], last_processed_id)
    /\ IsNone(deals[idx].created)
    /\ ErrorHandler(log \o <<Ev("examine", deals[idx].thread_id)>>)
    /\ UNCHANGED <<options, clock, last_processed_id, deals, current_batch_max_id,
                   current_time, idx, sent, fetched, wm0, iter>>

\* lines 176-178
WarnNoCreated ==
    /\ InLoop
    /\ ~AlreadyProcessed(deals[idx], last_processed_id)
    /\ IsNone(deals[idx].created)
    /\ Continue(<<Ev("examine", deals[idx].thread_id), Ev("warn", deals[idx].thread_id)>>)

\* line 180 raises TypeError, caught at line 228
AgeError ==
    /\ InLoop
    /\ ~AlreadyProcessed(deals[idx], last_processed_id)
    /\ ~IsNone(deals[idx].created)
    /\ AgeRaises(current_time, deals[idx])
    /\ ErrorHandler(log \o <<Ev("examine", deals[idx].thread_id)>>)
    /\ UNCHANGED <<options, clock, last_processed_id, deals, current_batch_max_id,
                   current_time, idx, sent, fetched, wm0, iter>>

\* the record reaches line 182
Aged(deal) ==
    /\ ~AlreadyProcessed(deal, last_processed_id)
    /\ ~IsNone(deal.created)
    /\ ~AgeRaises(current_time, deal)

\* lines 182-184
SkipTooRecent ==
    /\ InLoop
    /\ Aged(deals[idx])
    /\ AgeSeconds(current_time, deals[idx]) < min_age
    /\ Continue(<<Ev("examine", deals[idx].thread_id)>>)

\* lines 186-194, the condition false
SkipNoMatch ==
    /\ InLoop
    /\ Aged(deals[idx])
    /\ ~(AgeSeconds(current_time, deals[idx]) < min_age)
    /\ ~Matches(deals[idx], keywords, categories, min_temperature)
    /\ Continue(<<Ev("examine", deals[idx].thread_id), Ev("match", deals[idx].thread_id)>>)

\* lines 194-211: the condition true, requests.post is called
Post ==
    /\ InLoop
    /\ Aged(deals[idx])
    /\ ~(AgeSeconds(current_time, deals[idx]) < min_age)
    /\ Matches(deals[idx], keywords, categories, min_temperature)
    /\ sent' = sent \cup {deals[idx].thread_id}
    /\ log' = log \o <<Ev("examine", deals[idx].thread_id), Ev("match", deals[idx].thread_id),
                       Ev("post", deals[idx].thread_id)>>
    /\ pc' = "post"
    /\ UNCHANGED <<options, clock, last_processed_id, deals, current_batch_max_id,
                   current_time, idx, fetched, wm0, iter>>

\* the statuses the webhook answers with
Statuses == {200, 204, 500}

\* (mutant) a delivery that is not reported as sent ends the iteration in the handler of line 228
AfterPost_abort(events) ==
    LET ok == events[Len(events)].e = "sent" IN
    /\ log' = IF ok THEN log \o events
              ELSE log \o events \o <<Ev("error", 0), Ev("sleep", Cooldown)>>
    /\ idx' = IF ok THEN idx + 1 ELSE idx
    /\ pc' = IF ok THEN "process" ELSE "cooldown"
    /\ UNCHANGED <<options, clock, last_processed_id, deals, current_batch_max_id,
                   current_time, sent, fetched, wm0, iter>>

\* (mutant) a delivery that is not reported as sent is attempted again
AfterPost_retry(events) ==
    LET ok == events[Len(events)].e = "sent" IN
    /\ log' = IF ok THEN log \o events
              ELSE log \o events \o <<Ev("post", deals[idx].thread_id)>>
    /\ idx' = IF ok THEN idx + 1 ELSE idx
    /\ pc' = IF ok THEN "process" ELSE "post"
    /\ UNCHANGED <<options, clock, last_processed_id, deals, current_batch_max_id,
                   current_time, sent, fetched, wm0, iter>>

\* lines 212-217: the outcome is echoed and the for loop goes on
AfterPost(events) ==
    /\ log' = log \o events
    /\ idx' = idx + 1
    /\ pc' = "process"
    /\ UNCHANGED <<options, clock, last_processed_id, deals, current_batch_max_id,
                   current_time, sent, fetched, wm0, iter>>

\* line 212: response.status_code == 200
Succeeded(status) == status = StatusOk

\* lines 212-215: requests.post returns a response; the echo of a failure carries the
\* status
PostReturns ==
    /\ pc = "post"
    /\ \E status \in Statuses :
         AfterPost(<<Ev("status", status),
                     IF Succeeded(status) THEN Ev("sent", deals[idx].thread_id)
                     ELSE Ev("send_failed", deals[idx].thread_id)>>)

\* lines 216-217: requests.post raises a RequestException
PostRaises ==
    /\ pc = "post"
    /\ AfterPost(<<Ev("send_error", deals[idx].thread_id)>>)

\* (mutant) lines 220-223 inside the for loop: the watermark advances and the sleep
\* starts after any record
FinishBatch_inloop ==
    /\ pc = "process"
    /\ last_processed_id' = NextLastProcessedId(last_processed_id, current_batch_max_id)
    /\ log' = Append(log, Ev("sleep", interval))
    /\ pc' = "sleep"
    /\ UNCHANGED <<options, clock, deals, current_batch_max_id, current_time, idx,
                   sent, fetched, wm0, iter>>

\* lines 219-223: the for loop is over; advance the watermark, time.sleep(interval)
FinishBatch ==
    /\ pc = "process"
    /\ idx > Len(deals)
    /\ last_processed_id' = NextLastProcessedId(last_processed_id, current_batch_max_id)
    /\ log' = Append(log, Ev("sleep", interval))
    /\ pc' = "sleep"
    /\ UNCHANGED <<options, clock, deals, current_batch_max_id, current_time, idx,
                   sent, fetched, wm0, iter>>

\* Back at the top of the while loop nothing reads deals, current_batch_max_id,
\* current_time or the loop position of the iteration that ended before lines 157-170
\* assign them again: they go back to what they are before the first iteration, so
\* that two runs which differ only in such leftovers are one state.  The log and
\* wm0 start over for the iteration to come.
TopOfLoop ==
    /\ pc' = "fetch"
    /\ deals' = <<>>
    /\ current_batch_max_id' = 0
    /\ current_time' = None
    /\ idx' = 1
    /\ fetched' = <<>>
    /\ log' = <<>>
    /\ wm0' = last_processed_id
    /\ UNCHANGED <<options, last_processed_id, sent, iter>>

\* time.sleep(interval) returns
WakeSleep ==
    /\ pc = "sleep"
    /\ clock' = clock + interval
    /\ TopOfLoop

\* time.sleep(60) returns
WakeCooldown ==
    /\ pc = "cooldown"
    /\ clock' = clock + Cooldown
    /\ TopOfLoop

\* the log entry that tells where the loop was when Ctrl+C arrived
InterruptedIn(p) ==
    [ fetch |-> "in_fetch", process |-> "in_process", post |-> "in_post",
      sleep |-> "in_sleep", cooldown |-> "in_cooldown" ][p]

\* (mutant) Ctrl+C during a sleep acted upon only when the sleep has run its time
KeyboardInterrupt_deferred ==
    /\ pc # "stopped"
    /\ pc' = "stopped"
    /\ clock' = (IF pc = "sleep" THEN clock + interval
                 ELSE IF pc = "cooldown" THEN clock + Cooldown ELSE clock)
    /\ deals' = <<>>
    /\ current_batch_max_id' = 0
    /\ current_time' = None
    /\ idx' = 1
    /\ fetched' = <<>>
    /\ log' = <<Ev("interrupted", 0), Ev(InterruptedIn(pc), 0)>>
    /\ UNCHANGED <<options, last_processed_id, sent, wm0, iter>>

\* lines 225-227 and 232-233: Ctrl+C, wherever the loop is.  monitor returns and its
\* locals are gone; what the run did (sent, iter) stays to be observed.
KeyboardInterrupt ==
    /\ pc # "stopped"
    /\ pc' = "stopped"
    /\ deals' = <<>>
    /\ current_batch_max_id' = 0
    /\ current_time' = None
    /\ idx' = 1
    /\ fetched' = <<>>
    /\ log' = <<Ev("interrupted", 0), Ev(InterruptedIn(pc), 0)>>
    /\ UNCHANGED <<options, clock, last_processed_id, sent, wm0, iter>>

Next ==
    \/ Fetch
    \/ FetchTransportError
    \/ FetchMalformed
    \/ SkipProcessed
    \/ WarnNoCreated
    \/ AgeError
    \/ SkipTooRecent
    \/ SkipNoMatch
    \/ Post
    \/ PostReturns
    \/ PostRaises
    \/ FinishBatch
    \/ WakeSleep
    \/ WakeCooldown
    \/ KeyboardInterrupt

Spec == Init /\ [][Next]_vars

\* the same loop against the scenario feed
SpecScenario == InitScenario /\ [][Next]_vars

\* the same loop against the filter feed, over the option values
SpecFilter == InitFilter /\ [][Next]_vars

\* the same loop against the failing feed, for each --interval.  time.sleep returns: a sleep of line 223 or
\* line 230 that is not interrupted ends
SpecLive == InitFailing /\ [][Next]_vars /\ WF_vars(WakeSleep) /\ WF_vars(WakeCooldown)

----------------------------------------------------------------------------
(* Reading the log *)

\* the n of the events of kind e, in order
EventsOf(l, e) ==
    LET sel == SelectSeq(l, LAMBDA ev : ev.e = e)
    IN  [k \in 1..Len(sel) |-> sel[k].n]

\* the kinds of event whose n is a thread_id
RecordEvents == {"examine", "warn", "match", "post", "sent", "send_failed", "send_error"}

Logged(e, id) == \E k \in 1..Len(log) : log[k] = Ev(e, id)

Ascending(seq) == \A a, b \in 1..Len(seq) : a < b => seq[a] <= seq[b]

\* the step is the call of requests.post for deals[idx]
PostStep == pc = "process" /\ pc' = "post"

\* the records of the batch the for loop is done with (or, in "post" and after an
\* error, is at)
Visited(p) == p < idx \/ (p = idx /\ pc \in {"post", "cooldown"})

----------------------------------------------------------------------------
(* Claims *)

\* C1: within one run no identifier has requests.post called for it more than once.
\* (As stated; the code violates it.)
C1_NeverPostedTwice == [][PostStep => deals[idx].thread_id \notin sent]_vars

\* C2: last_processed_id never decreases.  (As stated; the code violates it.)
C2_WatermarkNeverDecreases == [][last_processed_id' >= last_processed_id]_vars

\* C3: after an iteration that completed without error (the loop is in its interval
\* sleep) the watermark is the greatest thread_id of the batch of deal records,
\* whatever was delivered; with an empty batch it is what it was before.
C3_WatermarkIsBatchMax ==
    pc = "sleep" =>
        IF deals = <<>> THEN last_processed_id = wm0
        ELSE /\ \E k \in 1..Len(deals) : deals[k].thread_id = last_processed_id
             /\ \A k \in 1..Len(deals) : deals[k].thread_id <= last_processed_id

\* C3 witness: an iteration completed, nothing was posted in it, the watermark moved
C3_Witness ==
    /\ pc = "sleep"
    /\ deals # <<>>
    /\ EventsOf(log, "post") = <<>>
    /\ last_processed_id > wm0

\* C4: a record whose thread_id is at most the watermark the batch started with is
\* skipped entirely: no event of the iteration (examined, warned, matched against the
\* filter, posted) is about it; and the watermark the loop compares with is that one.
C4_SeenRecordsSkipped ==
    /\ pc \in {"process", "post"} => last_processed_id = wm0
    /\ \A k \in 1..Len(log) : log[k].e \in RecordEvents => log[k].n > wm0

\* C4 witness: the loop went past a record at the watermark and processed a later one
C4_Witness ==
    /\ pc = "sleep"
    /\ wm0 > 0
    /\ \E k \in 1..Len(deals) : deals[k].thread_id = wm0
    /\ EventsOf(log, "examine") # <<>>

\* C5: over a whole run, requests.post is never called for a thread_id smaller than one
\* it was called for before.  (As stated; the code violates it.)
C5_RunPostsNonDecreasing ==
    [][PostStep => \A id \in sent : id <= deals[idx].thread_id]_vars

\* C6: within one batch requests.post is called in non-decreasing thread_id order,
\* whatever order the page arrived in.
C6_BatchPostsAscending == Ascending(EventsOf(log, "post"))

\* C6 witness: two records arrived in descending order and both were posted
C6_Witness ==
    /\ Len(fetched) >= 2
    /\ fetched[1] > fetched[2]
    /\ Len(EventsOf(log, "post")) >= 2

\* C8: when the fetch raises a transport error the watermark is unchanged, nothing is
\* posted in that iteration, the one sleep taken is the cooldown, and the loop then
\* goes back to the top for another iteration (unless interrupted).
C8_FetchErrorCoolsDownAndRetries ==
    /\ [](Len(log) > 0 /\ log[1].e = "fetch_failed" =>
            /\ pc = "cooldown"
            /\ last_processed_id = wm0
            /\ log = <<Ev("fetch_failed", 0), Ev("error", 0), Ev("sleep", Cooldown)>>)
    /\ [][pc = "fetch" /\ pc' = "cooldown" =>
            last_processed_id' = last_processed_id /\ sent' = sent]_vars
    /\ [][pc = "cooldown" /\ pc' # "stopped" =>
            pc' = "fetch" /\ last_processed_id' = last_processed_id /\ sent' = sent]_vars

\* C8 witness: the second iteration's fetch failed, after a first one that posted
C8_Witness ==
    /\ pc = "cooldown"
    /\ log[1].e = "fetch_failed"
    /\ last_processed_id > 0
    /\ sent # {}

\* C7: with the watermark at 100 and the page 105, 98, 120, 103 (in that order), the
\* iteration processes 103, 105, 120 in that order, never 98, and leaves the
\* watermark at 120.
C7_ScenarioOrderAndWatermark ==
    (fetched = ScenarioOrder /\ wm0 = 100 /\ pc # "fetch") =>
        /\ [k \in 1..Len(deals) |-> deals[k].thread_id] = <<98, 103, 105, 120>>
        /\ EventsOf(log, "examine") = SubSeq(<<103, 105, 120>>, 1, Len(EventsOf(log, "examine")))
        /\ Len(EventsOf(log, "examine")) =
              (IF pc = "post" THEN idx - 1 ELSE IF idx = 1 THEN 0 ELSE idx - 2)
        /\ pc \in {"process", "post", "sleep"}
        /\ pc \in {"process", "post"} => last_processed_id = 100
        /\ pc = "sleep" => /\ EventsOf(log, "examine") = <<103, 105, 120>>
                           /\ last_processed_id = 120

\* C7 witness: the scenario's iteration has completed
C7_Witness == fetched = ScenarioOrder /\ wm0 = 100 /\ pc = "sleep"

\* a delivery that failed: a response other than 200, or a RequestException
FailedDelivery(ev) == ev.e \in {"send_failed", "send_error"}

\* the filter as the specification words it, for a deal record d at the time now
RECURSIVE SameIgnoringCase(_, _)
SameIgnoringCase(a, b) ==
    IF a = <<>> \/ b = <<>> THEN a = b
    ELSE LowerChar(a[1]) = LowerChar(b[1]) /\ SameIgnoringCase(Tail(a), Tail(b))

OccursIgnoringCase(a, b) ==
    \E from \in 1..(Len(b) + 1) : \E to \in (from - 1)..Len(b) :
        SameIgnoringCase(a, SubSeq(b, from, to))

TextOrEmpty(x) == IF IsNone(x) THEN <<>> ELSE x.v

StatedEligible(d, now) ==
    /\ d.deal_type = "deals"
    /\ ~IsNone(d.created)
    /\ now.t - d.created.t >= min_age
    /\ \/ keywords = {}
       \/ \E kw \in keywords : OccursIgnoringCase(kw, TextOrEmpty(d.title))
       \/ categories = {}
       \/ \E cat \in categories : OccursIgnoringCase(cat, TextOrEmpty(d.category))
    /\ d.temperature >= min_temperature

\* C9: a failed delivery does not stop the batch: the for loop goes on to the next
\* record exactly as after a delivery that succeeded, and when the iteration completes
\* every record above the watermark was examined, those the filter lets through were
\* posted, and the watermark is the batch maximum.
C9_FailedDeliveryDoesNotStopBatch ==
    /\ [][pc = "post" /\ pc' # "stopped" =>
            /\ pc' = "process"
            /\ idx' = idx + 1
            /\ deals' = deals
            /\ current_batch_max_id' = current_batch_max_id
            /\ last_processed_id' = last_processed_id]_vars
    /\ []((pc = "sleep" /\ \E k \in 1..Len(log) : FailedDelivery(log[k])) =>
            /\ \A p \in 1..Len(deals) :
                 deals[p].thread_id > wm0 =>
                    /\ Logged("examine", deals[p].thread_id)
                    /\ StatedEligible(deals[p], current_time) =>
                          Logged("post", deals[p].thread_id)
            /\ \A p \in 1..Len(deals) : deals[p].thread_id <= last_processed_id
            /\ \E p \in 1..Len(deals) : deals[p].thread_id = last_processed_id)

\* C9 witness: the first delivery of a batch failed, a later record was posted all the
\* same, and the iteration completed with the watermark moved
C9_Witness ==
    /\ pc = "sleep"
    /\ \E a, b \in 1..Len(log) :
         /\ a < b
         /\ FailedDelivery(log[a])
         /\ log[b].e = "post"
    /\ last_processed_id > wm0

\* C10: for a record above the watermark, requests.post is called exactly when the
\* record is eligible as stated (deal kind, has a creation time, old enough, keyword or
\* category match, warm enough).  (As stated; the code violates it.)
C10_PostedIffEligible ==
    \A p \in 1..Len(deals) :
        (Visited(p) /\ deals[p].thread_id > wm0) =>
            (Logged("post", deals[p].thread_id) <=> StatedEligible(deals[p], current_time))

\* What does hold of the filter: the same equivalence for the records whose creation
\* time is absent or came from an epoch number.
EpochDatedPostedIffEligible ==
    \A p \in 1..Len(deals) :
        (Visited(p) /\ deals[p].thread_id > wm0
            /\ (IsNone(deals[p].created) \/ deals[p].created.tz = "utc")) =>
            (Logged("post", deals[p].thread_id) <=> StatedEligible(deals[p], current_time))

\* the record at position p of the batch is above the watermark and the for loop is
\* done with it
Handled(p) == Visited(p) /\ deals[p].thread_id > wm0

\* the age the specification gives a dated record: now - created_at
StatedAge(d, now) == now.t - d.created.t

\* C11: with no keyword, no category and min_temperature = 0, every record above the
\* watermark that has a creation time and is at least min_age old is posted.
\* (As stated; the code violates it.)
C11_WildcardPostsEveryAgedRecord ==
    (keywords = {} /\ categories = {} /\ min_temperature = 0) =>
        \A p \in 1..Len(deals) :
            (Handled(p) /\ ~IsNone(deals[p].created)
                /\ StatedAge(deals[p], current_time) >= min_age) =>
                Logged("post", deals[p].thread_id)

\* C12: a record colder than min_temperature is never posted, whatever its title and
\* category and whatever the keywords and categories.
C12_ColdRecordNeverPosted ==
    \A p \in 1..Len(deals) :
        deals[p].temperature < min_temperature => ~Logged("post", deals[p].thread_id)

\* C12 witness: a record of temperature 40 against min_temperature 50, its title holding
\* a keyword and its category holding a category, went through the filter unposted
C12_Witness ==
    /\ pc = "sleep"
    /\ min_temperature = 50
    /\ Len(deals) = 1
    /\ deals[1].temperature = 40
    /\ Logged("match", deals[1].thread_id)
    /\ keywords # {} /\ \E kw \in keywords : OccursIgnoringCase(kw, TextOrEmpty(deals[1].title))
    /\ categories # {}
    /\ \E cat \in categories : OccursIgnoringCase(cat, TextOrEmpty(deals[1].category))

C20_YoungRecordNeverPosted ==
    \A p \in 1..Len(deals) :
        (~IsNone(deals[p].created) /\ StatedAge(deals[p], current_time) < min_age) =>
            ~Logged("post", deals[p].thread_id)

\* C20 witness: a young record that every other condition would let through was
\* examined and not posted
C20_Witness ==
    /\ pc = "sleep"
    /\ Len(deals) = 1
    /\ ~IsNone(deals[1].created)
    /\ StatedAge(deals[1], current_time) < min_age
    /\ keywords = {} /\ categories = {}
    /\ deals[1].temperature >= min_temperature
    /\ Logged("examine", deals[1].thread_id)
    /\ ~Logged("post", deals[1].thread_id)

\* C14: the loop stops only by a KeyboardInterrupt: no failed fetch, failed record or
\* failed delivery stops it, and an iteration that ended in the error handler is
\* followed by the top of the loop (the next fetch) unless the run is interrupted.
C14_OnlyInterruptStopsTheLoop ==
    /\ [][pc' = "stopped" => KeyboardInterrupt]_vars
    /\ [][(pc \in {"sleep", "cooldown"} /\ pc' # "stopped") => (pc' = "fetch")]_vars
    /\ (pc = "cooldown") ~> (pc = "fetch" \/ pc = "stopped")

\* C14 witness: in its second iteration or later the loop is in the cooldown of an
\* iteration that had a failed delivery and then a record that raised
C14_Witness ==
    /\ pc = "cooldown"
    /\ iter >= 2
    /\ \E k \in 1..Len(log) : FailedDelivery(log[k])
    /\ \E k \in 2..Len(log) : log[k].e = "error" /\ log[k - 1].e = "examine"

\* C15: a KeyboardInterrupt never stops the loop while a webhook call is in flight:
\* from the call of requests.post the loop goes on to the outcome of that call.
\* (As stated; the code violates it.)
C15_PostInFlightIsNotInterrupted ==
    [][(pc = "post") => (pc' # "stopped")]_vars

\* C16: a record whose temperature or creation time cannot be parsed never aborts the
\* fetch or the batch: no fetch ends in the error handler because a record of the
\* page could not be built, and the record warned about for its creation time is
\* followed by the rest of the batch.
\* (As stated; the code violates it.)
C16_MalformedRecordDoesNotAbort ==
    /\ \A k \in 1..Len(log) : log[k].e # "fetch_malformed"
    /\ \A k \in 1..Len(log) - 1 : log[k].e = "warn" => log[k + 1].e # "error"

\* C18: the outcome echoed for an answered webhook call is "sent" exactly when the
\* status is of the 200 class (200 to 299), and a failure otherwise.
\* (As stated; the code violates it.)
C18_SuccessIsThe200Class ==
    \A k \in 1..Len(log) - 1 :
        log[k].e = "status" =>
            /\ log[k + 1].e \in {"sent", "send_failed"}
            /\ log[k + 1].e = "sent" <=> log[k].n \in 200..299

\* how many times requests.post was called for id in the iteration
Posts(id) == Len(SelectSeq(log, LAMBDA ev : ev = Ev("post", id)))

\* how many outcomes of a call (sent, failed, exception) were echoed for id
Outcomes(id) ==
    Len(SelectSeq(log, LAMBDA ev : ev.n = id /\ ev.e \in {"sent", "send_failed", "send_error"}))

\* C19: in an iteration that completes, requests.post was called exactly once for each
\* eligible record above the watermark and never for another record, whatever the
\* outcome of the call; at no moment of an iteration has a record been posted twice.
C19_OnePostPerEligibleRecord ==
    /\ \A p \in 1..Len(deals) : Posts(deals[p].thread_id) <= 1
    /\ pc = "sleep" =>
         \A p \in 1..Len(deals) :
            LET id == deals[p].thread_id IN
            /\ Posts(id) = (IF id > wm0 /\ StatedEligible(deals[p], current_time) THEN 1 ELSE 0)
            /\ Outcomes(id) = Posts(id)

\* C19 witness: a completed iteration in which two records were posted, the first of
\* the two deliveries failed, and each has its one call
C19_Witness ==
    /\ pc = "sleep"
    /\ Len(deals) = 2
    /\ Posts(deals[1].thread_id) = 1 /\ Posts(deals[2].thread_id) = 1
    /\ \E k \in 1..Len(log) : FailedDelivery(log[k]) /\ log[k].n = deals[1].thread_id

\* In the scenario feed the only record whose age raises arrives alone, so an
\* iteration that called requests.post is never cut short by the error handler: it
\* completes, unless the run is interrupted and there is no later iteration.
ScenarioPostingIterationsComplete ==
    pc = "cooldown" => EventsOf(log, "post") = <<>>

\* C17: a record of the batch of a completed iteration is not evaluated against the
\* filter, nor posted, in a later iteration.  Stated for the records the completed
\* iteration posted: no step examines a record that an earlier iteration posted.
\* (As stated; the code violates it.)
C17_SeenRecordNeverReconsidered ==
    [][\A k \in 1..Len(log') :
          (k > Len(log) /\ log'[k].e = "examine") => (log'[k].n \notin sent)]_vars

\* C21: a record with no creation time is never posted; once the for loop has come to
\* such a record above the watermark, a warning is logged for it and the loop has moved
\* on to the records after it; an iteration that completes has examined every record
\* above the watermark.
C21_UndatedRecordWarnedAndSkipped ==
    /\ \A p \in 1..Len(deals) :
          IsNone(deals[p].created) =>
             /\ ~Logged("post", deals[p].thread_id)
             /\ Handled(p) => (Logged("warn", deals[p].thread_id) /\ idx > p)
    /\ \A k \in 1..Len(log) - 1 : log[k].e = "warn" => log[k + 1].e \in {"examine", "sleep"}
    /\ pc = "sleep" =>
          \A p \in 1..Len(deals) :
             deals[p].thread_id > wm0 => Logged("examine", deals[p].thread_id)

\* C21 witness: a completed iteration whose first record had no creation time and was
\* warned about, and whose second record was posted
C21_Witness ==
    /\ pc = "sleep"
    /\ Len(deals) = 2
    /\ IsNone(deals[1].created)
    /\ Logged("warn", deals[1].thread_id)
    /\ Logged("post", deals[2].thread_id)

\* the thread_ids of the batch
BatchIds == {deals[p].thread_id : p \in 1..Len(deals)}

\* C22: requests.post is called for records of the deal kind only: the batch holds
\* deals only, every post is for a record of the batch, and a record of the page that
\* is not in the batch (its _type is not 'deals') has no post, whatever the options.
C22_OnlyDealsPosted ==
    /\ \A p \in 1..Len(deals) : deals[p].deal_type = "deals"
    /\ \A k \in 1..Len(log) : log[k].e = "post" => log[k].n \in BatchIds
    /\ \A j \in 1..Len(fetched) :
          fetched[j] \notin BatchIds => ~Logged("post", fetched[j])

\* C22 witness: with options that let every dated deal through, an iteration whose page
\* held one record, not a deal, completed with an empty batch and no post
C22_Witness ==
    /\ pc = "sleep"
    /\ Len(fetched) = 1
    /\ deals = <<>>
    /\ keywords = {} /\ categories = {} /\ min_temperature = 0 /\ min_age = 0
    /\ EventsOf(log, "post") = <<>>

\* the thread_ids of the records of the batch that are deals
DealIds == {deals[p].thread_id : p \in {q \in 1..Len(deals) : deals[q].deal_type = "deals"}}

\* C23: when an iteration completes, the watermark is the greatest thread_id among the
\* deals of the page, never the thread_id of a record of the page that is not a deal;
\* after a page without any deal it is what it was when the iteration began.
C23_WatermarkFromDealsOnly ==
    pc = "sleep" =>
        /\ DealIds = {} => last_processed_id = wm0
        /\ DealIds # {} =>
              /\ last_processed_id \in DealIds
              /\ \A id \in DealIds : id <= last_processed_id
        /\ \A j \in 1..Len(fetched) :
              (fetched[j] \notin DealIds /\ last_processed_id = fetched[j]) =>
                  (wm0 = fetched[j] /\ DealIds = {})

\* C23 witness: a completed iteration whose page held a deal and a record that is not a
\* deal with a greater thread_id; the watermark is the deal's
C23_Witness ==
    /\ pc = "sleep"
    /\ Len(fetched) = 2
    /\ Len(deals) = 1
    /\ \E j \in 1..2 : fetched[j] > deals[1].thread_id
    /\ last_processed_id = deals[1].thread_id
    /\ last_processed_id > wm0

C25_InterruptEndsTheSleep ==
    /\ [](pc \in {"sleep", "cooldown"} => ENABLED KeyboardInterrupt)
    /\ [][(pc \in {"sleep", "cooldown"} /\ pc' = "stopped") =>
            (clock' = clock /\ sent' = sent /\ iter' = iter
             /\ last_processed_id' = last_processed_id)]_vars
    /\ [][(pc = "stopped") => (UNCHANGED vars)]_vars
    /\ [](pc = "stopped" => ~ENABLED Next)

\* C25 witness: the loop was stopped from the interval sleep of its second iteration or
\* a later one, after a delivery
C25_Witness ==
    /\ pc = "stopped"
    /\ log = <<Ev("interrupted", 0), Ev("in_sleep", 0)>>
    /\ iter >= 2
    /\ sent # {}

\* the calls of requests.post of the iteration that have no outcome yet
InFlight ==
    Len(EventsOf(log, "post"))
      - Len(SelectSeq(log, LAMBDA ev : ev.e \in {"sent", "send_failed", "send_error"}))

\* C26: the loop is sequential.  An iteration fetches, then goes through its batch, then
\* sleeps; at most one call of requests.post is without its outcome, and only while the
\* loop waits for it; the watermark changes only in the step from the end of the batch
\* into the interval sleep, when every call has its outcome; an iteration begins only
\* at the top of the loop, which is reached only by a sleep that ended.
C26_StrictlySequential ==
    /\ [](InFlight = (IF pc = "post" THEN 1 ELSE 0))
    /\ [][(pc' # pc /\ pc' # "stopped") =>
            \/ pc = "fetch" /\ pc' \in {"process", "cooldown"}
            \/ pc = "process" /\ pc' \in {"post", "sleep", "cooldown"}
            \/ pc = "post" /\ pc' = "process"
            \/ pc \in {"sleep", "cooldown"} /\ pc' = "fetch"]_vars
    /\ [][(last_processed_id' # last_processed_id) =>
            (pc = "process" /\ pc' = "sleep" /\ idx > Len(deals) /\ InFlight = 0
             /\ sent' = sent)]_vars
    /\ [][(iter' # iter) => (pc = "fetch" /\ iter' = iter + 1)]_vars
    /\ [][(pc' = "fetch" /\ pc # "fetch") =>
            (clock' = clock + (IF pc = "sleep" THEN interval ELSE Cooldown))]_vars

\* C26 witness: in its second iteration or later the loop is in the interval sleep
\* after a batch of two deliveries, the watermark advanced
C26_Witness ==
    /\ pc = "sleep"
    /\ iter >= 2
    /\ Len(EventsOf(log, "post")) = 2
    /\ InFlight = 0
    /\ last_processed_id > wm0

\* C27: the watermark starts below every thread_id: until a first iteration has
\* completed it is 0, below every record of the batch, and the for loop skips no record
\* by the comparison of line 172: every record it has come to was examined.
C27_FirstIterationSkipsNothing ==
    (iter = 1 /\ pc \in {"process", "post", "sleep", "cooldown"}) =>
        /\ wm0 = 0
        /\ \A p \in 1..Len(deals) :
              /\ deals[p].thread_id > wm0
              /\ Visited(p) => Logged("examine", deals[p].thread_id)

\* C27 witness: the first iteration completed with a batch of two records, the one with
\* the smallest identifier there is among them, both examined
C27_Witness ==
    /\ iter = 1
    /\ pc = "sleep"
    /\ Len(deals) = 2
    /\ deals[1].thread_id = 1
    /\ Logged("examine", 1)
    /\ Logged("examine", deals[2].thread_id)

\* C28: a record that has a creation time, from an epoch number or from an ISO string,
\* gets its age computed without an exception: the iteration is never in the error
\* handler because of the record the for loop was at, if that record is dated.
\* (As stated; the code violates it.)
C28_AgeOfDatedRecordNeverRaises ==
    \A p \in 1..Len(deals) :
        (deals[p].thread_id > wm0 /\ ~IsNone(deals[p].created)) =>
            ~(pc = "cooldown" /\ idx = p /\ log[Len(log) - 2] = Ev("examine", deals[p].thread_id))

\* exactly one of --keywords and --categories is given
OneSetEmpty == (keywords = {}) # (categories = {})

\* C29: when exactly one of the keyword set and the category set is empty, the set
\* that is given has no effect: a record that reaches the match of lines 186-194 is
\* posted exactly when it is warm enough, whatever its title and category; and a deal
\* above the watermark whose age line 180 computes is posted exactly when it is old
\* enough and warm enough.
C29_OneEmptySetIsWildcard ==
    OneSetEmpty =>
        \A p \in 1..Len(deals) :
            LET id == deals[p].thread_id IN
            /\ Logged("match", id) =>
                  (Logged("post", id) <=> deals[p].temperature >= min_temperature)
            /\ (Handled(p) /\ ~IsNone(deals[p].created) /\ deals[p].created.tz = "utc") =>
                  (Logged("post", id) <=>
                      (StatedAge(deals[p], current_time) >= min_age
                       /\ deals[p].temperature >= min_temperature))

\* C29 witness: with categories given and no keyword, a record whose category holds none
\* of the categories was posted
C29_Witness ==
    /\ keywords = {} /\ categories # {}
    /\ Len(deals) = 1
    /\ ~\E cat \in categories : OccursIgnoringCase(cat, TextOrEmpty(deals[1].category))
    /\ Logged("post", deals[1].thread_id)

\* C30: the watermark is written only by line 220, after the whole batch: while an
\* iteration runs, and in the cooldown of an iteration that an exception aborted
\* (before, between or after deliveries), it has the value it had when the iteration
\* began; it differs from it only once the loop is in the interval sleep.
C30_WatermarkWrittenOnlyAfterTheBatch ==
    /\ pc \in {"fetch", "process", "post", "cooldown"} => last_processed_id = wm0
    /\ last_processed_id # wm0 =>
          (log # <<>> /\ log[Len(log)].e \in {"sleep", "in_sleep"} /\ idx > Len(deals))

\* C30 witness: an iteration was aborted after a delivery, its batch maximum above the
\* watermark, and the watermark is where it was
C30_Witness ==
    /\ pc = "cooldown"
    /\ EventsOf(log, "post") # <<>>
    /\ current_batch_max_id > wm0
    /\ wm0 > 0
    /\ last_processed_id = wm0

====
